---- MODULE Spec2Model ----
(***************************************************************************)
(* koishi-plugin-qhzy-sharp: the SharpService start-up pipeline.           *)
(*                                                                         *)
(* The repository holds two generations of the service that share the      *)
(* download / extract code:                                                *)
(*   impl = "index"    src/src/index.ts: start() locates a module under    *)
(*                     <nodeBinaryPath>/@img and otherwise installs the    *)
(*                     sharp package and runs its build (the call of       *)
(*                     getNativeBinding is commented out, line 77);        *)
(*   impl = "part_001" src/unnamed/part_001: start() calls                 *)
(*                     getNativeBinding, which downloads the prebuilt      *)
(*                     archive (handleSharp, downloadFile,                 *)
(*                     extractAndClean; the text of these three methods is *)
(*                     the same in index.ts).                              *)
(* One action models one event-loop callback (the synchronous code from    *)
(* one await / event to the next).                                         *)
(*                                                                         *)
(* Spec is the start-up pipeline.  SpecResolve calls the platform resolver *)
(* and isMusl alone, over every process environment; SpecLocate builds a   *)
(* directory tree under @img entry by entry and calls tryLoadSharp on it.  *)
(***************************************************************************)
EXTENDS Naturals, Sequences, FiniteSets, TLC

\* ------------------------------------------------------------- bounds
MaxRuns == 2        \* consecutive start() calls
MaxHops == 2        \* redirect responses one download may receive
MaxBody == 2        \* chunks of a response body
MaxEntries == 4     \* entries of a directory tree handed to the locator

\* ---------------------------------------------------------- constants
sharpVersion == "0.33.5"
napiLabel == "napi-v9"
registryHost == "registry.npmmirror.com"

Versions == {"0.33.5", "1.2.3"}
Impls == {"index", "part_001"}
Bytes == {"a", "b"}

\* The runtime environments drawn in Init: process.platform, process.arch,
\* and what isMusl reads (process.report, its glibcVersionRuntime, ldd).
EnvOf(p, a, rep, glibc, lddOk, lddMusl) ==
    [platform |-> p, arch |-> a, hasReport |-> rep, glibc |-> glibc,
     lddOk |-> lddOk, lddMusl |-> lddMusl]
Envs ==
    { EnvOf("linux", "x64", TRUE, TRUE, TRUE, FALSE),
      EnvOf("linux", "x64", TRUE, FALSE, TRUE, TRUE),
      EnvOf("linux", "arm", FALSE, FALSE, FALSE, FALSE),
      EnvOf("win32", "x64", TRUE, FALSE, FALSE, FALSE),
      EnvOf("freebsd", "x64", TRUE, FALSE, FALSE, FALSE) }

\* ------------------------------------------------------ pure functions
\* isMusl that answers glibc when ldd cannot be read.
isMusl_lddFailGlibc(e) ==
    IF ~e.hasReport
    THEN IF e.lddOk THEN e.lddMusl ELSE FALSE
    ELSE ~e.glibc

\* isMusl(): without process.report, read ldd (musl iff it contains "musl",
\* and musl when reading throws); with it, musl iff no glibcVersionRuntime.
isMusl(e) ==
    IF ~e.hasReport
    THEN IF e.lddOk THEN e.lddMusl ELSE TRUE
    ELSE ~e.glibc

\* platformArchMap with the musl infix on every linux entry.
platformArchMap_muslOnArm(e, v) ==
    LET base == "sharp-v" \o v \o "-" \o napiLabel \o "-"
        musl == IF isMusl(e) THEN "musl" ELSE ""
    IN  CASE e.platform = "win32" /\ e.arch \in {"x64", "ia32"} ->
               base \o "win32-" \o e.arch
          [] e.platform = "darwin" /\ e.arch \in {"x64", "arm64"} ->
               base \o "darwin-" \o e.arch
          [] e.platform = "linux" /\ e.arch \in {"x64", "arm64", "arm", "s390x"} ->
               base \o "linux" \o musl \o "-" \o e.arch
          [] OTHER -> "unsupported"

\* platformArchMap of getNativeBinding; v is the version the file puts in the
\* name.  "unsupported" stands for the thrown Error.
platformArchMap(e, v) ==
    LET base == "sharp-v" \o v \o "-" \o napiLabel \o "-"
        musl == IF isMusl(e) THEN "musl" ELSE ""
    IN  CASE e.platform = "win32" /\ e.arch \in {"x64", "ia32"} ->
               base \o "win32-" \o e.arch
          [] e.platform = "darwin" /\ e.arch \in {"x64", "arm64"} ->
               base \o "darwin-" \o e.arch
          [] e.platform = "linux" /\ e.arch \in {"x64", "arm64"} ->
               base \o "linux" \o musl \o "-" \o e.arch
          [] e.platform = "linux" /\ e.arch \in {"arm", "s390x"} ->
               base \o "linux-" \o e.arch
          [] OTHER -> "unsupported"

\* The version a file's getNativeBinding / handleSharp use: index.ts reads
\* this.sharpV (the configured one), part_001 its module constant.
nameVersion(im, cfg) == IF im = "index" THEN cfg ELSE sharpVersion

\* URLs are records; UrlString renders one.
Url(proto, host, path) == [proto |-> proto, host |-> host, path |-> path]
UrlString(u) == u.proto \o "://" \o u.host \o u.path

\* handleSharp's url for fileName.
archiveUrl(im, cfg, fileName) ==
    Url("https", registryHost,
        "/-/binary/sharp/v" \o nameVersion(im, cfg) \o "/" \o fileName \o ".tar.gz")

\* new URL(location, url): an absolute location stands for itself, a
\* path-only location keeps the scheme and host of the base.
resolveLocation(loc, base) ==
    IF loc.abs THEN Url(loc.proto, loc.host, loc.path)
    ELSE Url(base.proto, base.host, loc.path)

\* ------------------------------------------------------------- state
VARIABLES
    impl,       \* which file's SharpService runs
    cfgSharpV,  \* config.sharpV
    env,        \* the process's platform, arch and libc evidence
    pc,         \* where the start() flow stands
    runs,       \* start() calls so far
    Sharp,      \* this.Sharp: "absent", "false" or "module"
    marker,     \* global.__QHZY_SHARP_PATH____: "unset", "img", "pkg"
    loaded,     \* the module is in require's cache of this process
    fs,         \* the directories and files the service touches
    dl,         \* the downloadFile call in flight (or the last one)
    trace,      \* the steps of the current run, in order
    tree,       \* a directory tree handed to the locator (see SpecLocate)
    out,        \* the result of a direct call of one of the service's
                \* functions (see SpecResolve, SpecLocate)
    other,      \* a second process's start() flow on the same directories,
                \* while it is not the one taking a step (see SpecTwo)
    hist        \* bookkeeping: downloads (network acquisitions started, all
                \* runs), failed (some step of some run failed or brought no
                \* module), failedStep (of this run), startEmpty (no module at
                \* first), foundAtStart (this run's first locate found one),
                \* layout (of the archive this run unpacked), blocked (this
                \* run's rename of @img met an occupied destination), err
                \* (the exit code in the error a subprocess step rejected
                \* with), acquired (the version of the artifact this run
                \* asked the network for)

vars == <<impl, cfgSharpV, env, pc, runs, Sharp, marker, loaded, fs, dl, trace,
          tree, out, hist, other>>

Settled == {"resolved", "rejected"}
\* "hung": the promise start() returned can no longer settle.
Stopped == Settled \cup {"hung"}

NoFile == [exists |-> FALSE, data |-> <<>>]
\* dl.state: the promise downloadFile returned ("idle": no call yet);
\* dl.phase: "request" (a GET awaits its response) or "body" (the 200
\* response is piped to the file); dl.requests: the URLs of the GETs issued;
\* dl.locs: the Location headers received; dl.body: what the 200 response
\* has carried so far; dl.sent: the chunks piped; dl.unlinkPending: an
\* fs.unlink(savePath) was started and has not run yet.
DlIdle == [state |-> "idle", phase |-> "none", cause |-> "none", status |-> 0,
           requests |-> <<>>, locs |-> <<>>, body |-> <<>>, sent |-> 0,
           unlinkPending |-> FALSE]

\* fs.img: <nodeBinaryPath>/@img: "absent", "empty", "junk" (entries, no
\*   .node file at any depth) or "node" (a .node file somewhere below);
\* fs.pkg: <nodeDir>/package: "absent", "empty", "junk" (entries, no .node
\*   file), "release" (a .node file under build/Release only), "nested" (a
\*   .node file under another subdirectory only) or "node" (a .node file
\*   directly in it);
\* fs.tmp: tmpDir exists; fs.stage: the staging directory tmpDir/<name>
\*   exists; fs.tar: the downloaded archive in it;
\* fs.descriptor: tmpDir/fullSharp/package.json exists;
\* fs.srcImg: tmpDir/fullSharp/node_modules/@img.
\* Once extractAndClean has settled, the downloadFile call that came before
\* it is over and its locals are gone.
DlDone == [DlIdle EXCEPT !.state = "resolved"]

ImgStates == {"absent", "empty", "junk", "node"}
PkgStates == {"absent", "empty", "junk", "release", "nested", "node"}

\* A tree: the kind of its root ("missing", "dir", or "broken": reading it
\* throws) and the kind of every entry below it, by path.
NoTree == [root |-> "missing", entries |-> <<>>]
NoOut == [op |-> "none"]
\* No second flow.
NoFlow == [pc |-> "none", runs |-> 0, Sharp |-> "absent", marker |-> "unset",
           loaded |-> FALSE, trace |-> <<>>, hist |-> <<>>]

Init ==
    /\ other = NoFlow
    /\ tree = NoTree
    /\ out = NoOut
    /\ impl \in Impls
    /\ cfgSharpV \in Versions
    /\ env \in Envs
    /\ pc = "init"
    /\ runs = 0
    /\ Sharp = "absent"
    /\ marker = "unset"
    /\ loaded = FALSE
    /\ \E i \in ImgStates, p \in PkgStates :
         /\ (impl = "index" => p = "absent")
         /\ (impl = "part_001" => i = "absent")
         /\ fs = [img |-> i, pkg |-> p, tmp |-> FALSE, stage |-> FALSE, descriptor |-> FALSE,
                  tar |-> NoFile, srcImg |-> "absent"]
    /\ dl = DlIdle
    /\ trace = <<>>
    /\ hist = [downloads |-> 0, failed |-> FALSE, failedStep |-> "none",
               startEmpty |-> (fs.img # "node" /\ fs.pkg # "node"),
               foundAtStart |-> FALSE, layout |-> "none",
               blocked |-> FALSE, err |-> <<>>, acquired |-> "none"]

\* --------------------------------------------------------- shared steps
\* require('@quanhuzeyu/sharp-for-koishi'): the cached module if this process
\* loaded it before; otherwise the package reads the marker and loads the
\* native module from that directory, which throws when there is none or
\* when the module does not fit the runtime (abiOK).
require(ld, dirHasNode, abiOK) ==
    IF ld \/ (dirHasNode /\ abiOK) THEN "module" ELSE "throw"

\* findNodeFileDir(imgDir) inside tryLoadSharp: readdirSync throws on a
\* missing root, the walk returns the directory of the first .node file.
findNodeFileDir(img) ==
    CASE img = "absent" -> "throws"
      [] img = "node" -> "found"
      [] OTHER -> "undefined"

\* tryLoadSharp that sets the marker to imgDir before it searches.
tryLoadSharp_markerFirst(f, m, ld, abiOK) ==
    IF findNodeFileDir(f.img) # "found"
    THEN [ret |-> "false", marker |-> "img", loaded |-> ld, ev |-> <<"locate">>]
    ELSE LET r == require(ld, TRUE, abiOK)
         IN  [ret |-> r, marker |-> "img", loaded |-> (ld \/ r = "module"),
              ev |-> <<"locate", "marker", "load">>]

\* tryLoadSharp(): false when nothing is found (or the walk threw);
\* otherwise the marker is set and the module is required.
tryLoadSharp(f, m, ld, abiOK) ==
    IF findNodeFileDir(f.img) # "found"
    THEN [ret |-> "false", marker |-> m, loaded |-> ld, ev |-> <<"locate">>]
    ELSE LET r == require(ld, TRUE, abiOK)
         IN  [ret |-> r, marker |-> "img", loaded |-> (ld \/ r = "module"),
              ev |-> <<"locate", "marker", "load">>]

\* cleanTMP(): rmSync(tmpDir, {recursive: true}) when the directory exists.
cleanTMP(f) ==
    IF f.tmp THEN [f EXCEPT !.tmp = FALSE, !.stage = FALSE, !.tar = NoFile,
                            !.descriptor = FALSE, !.srcImg = "absent"]
    ELSE f

Fail(step) == [hist EXCEPT !.failed = TRUE, !.failedStep = step]

\* ------------------------------------------------------------- start()
\* A start() call on a fresh service instance: in the same process (the
\* plugin is reloaded) or in a new one.  ensureDir creates tmpDir and the
\* canonical directory.
start(newProc) ==
    /\ pc \in {"init"} \cup Stopped
    /\ ~dl.unlinkPending
    /\ runs < MaxRuns
    /\ (pc = "init" => newProc)
    /\ runs' = runs + 1
    /\ Sharp' = "absent"
    /\ loaded' = (IF newProc THEN FALSE ELSE loaded)
    /\ marker' = (IF newProc THEN "unset" ELSE marker)
    /\ fs' = [fs EXCEPT !.tmp = TRUE]
    /\ dl' = DlIdle
    /\ trace' = <<"ensureDir">>
    /\ hist' = [hist EXCEPT !.failedStep = "none", !.foundAtStart = FALSE,
                             !.layout = "none", !.blocked = FALSE, !.err = <<>>,
                             !.acquired = "none"]
    /\ pc' = (IF impl = "index" THEN "locating" ELSE "binding")
    /\ UNCHANGED <<other, tree, out, impl, cfgSharpV, env>>

\* ensureDir rethrows a failed mkdir: start() rejects.
startMkdirFails(newProc) ==
    /\ pc \in {"init"} \cup Stopped
    /\ ~dl.unlinkPending
    /\ runs < MaxRuns
    /\ (pc = "init" => newProc)
    /\ runs' = runs + 1
    /\ Sharp' = "absent"
    /\ loaded' = (IF newProc THEN FALSE ELSE loaded)
    /\ marker' = (IF newProc THEN "unset" ELSE marker)
    /\ dl' = DlIdle
    /\ trace' = <<"ensureDirFailed">>
    /\ hist' = [hist EXCEPT !.failed = TRUE, !.failedStep = "ensureDir",
                             !.foundAtStart = FALSE, !.layout = "none",
                             !.blocked = FALSE, !.err = <<>>, !.acquired = "none"]
    /\ pc' = "rejected"
    /\ UNCHANGED <<other, tree, out, impl, cfgSharpV, env, fs>>

\* startLocate without the `return` of line 73: a found module is assigned
\* and the flow falls through to the installation.
startLocate_noReturn(abiOK) ==
    /\ pc = "locating"
    /\ LET r == tryLoadSharp(fs, marker, loaded, abiOK)
       IN  /\ marker' = r.marker
           /\ loaded' = r.loaded
           /\ trace' = trace \o r.ev
           /\ CASE r.ret = "module" ->
                    /\ Sharp' = "module"
                    /\ pc' = "install"
                    /\ hist' = [hist EXCEPT !.foundAtStart = TRUE]
                [] r.ret = "throw" ->
                    /\ pc' = "rejected"
                    /\ hist' = [Fail("load") EXCEPT !.foundAtStart = TRUE]
                    /\ UNCHANGED Sharp
                [] OTHER ->
                    /\ pc' = "install"
                    /\ UNCHANGED <<Sharp, hist>>
    /\ UNCHANGED <<other, tree, out, impl, cfgSharpV, env, runs, fs, dl>>

\* index.ts start(), lines 72-73: the first tryLoadSharp().
startLocate(abiOK) ==
    /\ pc = "locating"
    /\ LET r == tryLoadSharp(fs, marker, loaded, abiOK)
       IN  /\ marker' = r.marker
           /\ loaded' = r.loaded
           /\ trace' = trace \o r.ev
           /\ CASE r.ret = "module" ->
                    /\ Sharp' = "module"
                    /\ pc' = "resolved"
                    /\ hist' = [hist EXCEPT !.foundAtStart = TRUE]
                [] r.ret = "throw" ->
                    /\ pc' = "rejected"
                    /\ hist' = [Fail("load") EXCEPT !.foundAtStart = TRUE]
                    /\ UNCHANGED Sharp
                [] OTHER ->
                    /\ pc' = "install"
                    /\ UNCHANGED <<Sharp, hist>>
    /\ UNCHANGED <<other, tree, out, impl, cfgSharpV, env, runs, fs, dl>>

\* The package argument of fullDownloadSharp's install: `const version =
\* this.sharpV` is read and not used, packageName is 'sharp'.
packageSpec(cfg) == [name |-> "sharp", version |-> ""]

\* What `npm install <name>[@<version>]` fetches: the version asked for, or
\* the one the registry's `latest` tag names.
npmResolve(spec, latest) == IF spec.version = "" THEN latest ELSE spec.version

\* fullDownloadSharp(): ensureDir(tmpDir/fullSharp), then installPackage
\* writes an empty package.json there unless one exists and spawns
\* `npm install sharp --no-save`.  ioFail: the mkdir or the write throws;
\* latest: the version the registry's `latest` tag names.
fullDownloadSharp(ioFail, latest) ==
    /\ pc = "install"
    /\ IF ioFail
       THEN /\ pc' = "rejected"
            /\ hist' = Fail("install")
            /\ trace' = trace \o <<"installIoError">>
            /\ UNCHANGED fs
       ELSE /\ fs' = [fs EXCEPT !.tmp = TRUE, !.descriptor = TRUE]
            /\ trace' = trace \o (IF fs.descriptor THEN <<>> ELSE <<"descriptor">>)
                               \o <<"npmInstall">>
            /\ hist' = [hist EXCEPT !.downloads = @ + 1,
                                     !.acquired = npmResolve(packageSpec(cfgSharpV), latest)]
            /\ pc' = "installing"
    /\ UNCHANGED <<other, tree, out, impl, cfgSharpV, env, runs, Sharp, marker, loaded, dl>>

\* installClose without the exit-code test of lines 392-395.
installClose_ignoresCode(code) ==
    /\ pc = "installing"
    /\ pc' = "building"
    /\ trace' = trace \o (IF code = 0 THEN <<"installOk", "npmBuild">>
                          ELSE <<"installExit", "npmBuild">>)
    /\ UNCHANGED <<other, tree, out, impl, cfgSharpV, env, runs, Sharp, marker, loaded, fs, dl, hist>>

\* installPackage's 'close' listener.  Exit code 0 resolves, and start()
\* goes on to compileSharpAndMove, which spawns `npm install` in sharpPath.
installClose(code) ==
    /\ pc = "installing"
    /\ IF code # 0
       THEN /\ pc' = "rejected"
            /\ hist' = [Fail("install") EXCEPT !.err = <<code>>]
            /\ trace' = trace \o <<"installExit">>
       ELSE /\ pc' = "building"
            /\ trace' = trace \o <<"installOk", "npmBuild">>
            /\ UNCHANGED hist
    /\ UNCHANGED <<other, tree, out, impl, cfgSharpV, env, runs, Sharp, marker, loaded, fs, dl>>

\* installPackage registers no 'error' listener on its child process: a
\* failed spawn settles nothing.
installSpawnError ==
    /\ pc = "installing"
    /\ pc' = "hung"
    /\ hist' = Fail("install")
    /\ trace' = trace \o <<"installSpawnError">>
    /\ UNCHANGED <<other, tree, out, impl, cfgSharpV, env, runs, Sharp, marker, loaded, fs, dl>>

\* renameSync(imgDir, destPath) of a directory: onto nothing, or onto an
\* empty directory except on win32; ioFail is any other failure (EXDEV...).
renameOk(f, e, ioFail) ==
    /\ ~ioFail
    /\ \/ f.img = "absent"
       \/ f.img = "empty" /\ e.platform # "win32"

\* compileSharpAndMove after the build exited with 0 (lines 343-365):
\* produced is the @img directory found next to the package.
relocate(f, e, produced, ioFail) ==
    IF produced = "absent" THEN [fs |-> f, ev |-> "noImgDir"]
    ELSE IF renameOk(f, e, ioFail)
         THEN [fs |-> [f EXCEPT !.img = produced, !.srcImg = "absent"],
               ev |-> "relocate"]
         ELSE [fs |-> [f EXCEPT !.srcImg = produced], ev |-> "relocateFailed"]

\* compileSharpAndMove's 'close' listener and, on exit code 0, the rest of
\* start() (lines 75-80): relocation, cleanTMP, the second tryLoadSharp.
buildClose(code, produced, ioFail, rmFail, abiOK) ==
    /\ pc = "building"
    /\ IF code # 0
       THEN /\ pc' = "rejected"
            /\ hist' = [Fail("build") EXCEPT !.err = <<code>>]
            /\ trace' = trace \o <<"buildExit">>
            /\ UNCHANGED <<Sharp, marker, loaded, fs>>
       ELSE LET mv == relocate(fs, env, produced, ioFail)
                bad == IF mv.ev = "relocateFailed"
                       THEN [Fail("relocate") EXCEPT !.blocked = ~ioFail]
                       ELSE IF mv.ev = "noImgDir" \/ produced # "node"
                            THEN Fail("noArtifact") ELSE hist
            IN  IF rmFail /\ mv.fs.tmp
                THEN /\ pc' = "rejected"
                     /\ fs' = mv.fs
                     /\ hist' = [bad EXCEPT !.failed = TRUE,
                                             !.failedStep = "cleanTMP"]
                     /\ trace' = trace \o <<"buildOk", mv.ev, "cleanTMPFailed">>
                     /\ UNCHANGED <<Sharp, marker, loaded>>
                ELSE LET f2 == cleanTMP(mv.fs)
                         r == tryLoadSharp(f2, marker, loaded, abiOK)
                     IN  /\ fs' = f2
                         /\ marker' = r.marker
                         /\ loaded' = r.loaded
                         /\ trace' = trace \o <<"buildOk", mv.ev, "cleanTMP">> \o r.ev
                         /\ IF r.ret = "throw"
                            THEN /\ pc' = "rejected"
                                 /\ hist' = [bad EXCEPT !.failed = TRUE,
                                                         !.failedStep = "load"]
                                 /\ UNCHANGED Sharp
                            ELSE /\ pc' = "resolved"
                                 /\ Sharp' = r.ret
                                 /\ hist' = bad
    /\ UNCHANGED <<other, tree, out, impl, cfgSharpV, env, runs, dl>>

\* compileSharpAndMove's 'error' listener rejects.
buildSpawnError ==
    /\ pc = "building"
    /\ pc' = "rejected"
    /\ hist' = Fail("build")
    /\ trace' = trace \o <<"buildSpawnError">>
    /\ UNCHANGED <<other, tree, out, impl, cfgSharpV, env, runs, Sharp, marker, loaded, fs, dl>>

\* ------------------------------------------- part_001: getNativeBinding
\* The exit codes a subprocess may report.
ExitCodes == {0, 1, 2}

\* What a server may answer, and the Location headers it may send.
NoLoc == [abs |-> FALSE, proto |-> "", host |-> "", path |-> ""]
Locs ==
    { [abs |-> TRUE, proto |-> "https", host |-> "cdn.npmmirror.com", path |-> "/s.tgz"],
      [abs |-> TRUE, proto |-> "http", host |-> "cdn.npmmirror.com", path |-> "/s.tgz"],
      [abs |-> FALSE, proto |-> "", host |-> "", path |-> "/r.tgz"] }
Statuses == {200, 301, 302, 404}

\* downloadFile picks the client module once, from the first URL.
protocolOf(u) == IF u.proto = "https" THEN "https" ELSE "http"

\* localFileExisted that never sees the installed module.
localFileExisted_never(pkg) == FALSE

\* readdirSync(dirname(nodePath)).some(file => file.endsWith('.node')).
localFileExisted(pkg) == pkg = "node"

\* The platform test with the throw left out.
unsupported_never(e, v) == FALSE

\* if (!platformArchMap[platform] || !platformArchMap[platform][arch]) throw
unsupported(e, v) == platformArchMap(e, v) = "unsupported"

\* getNativeBinding() up to its first wait: the platform check, the
\* readdirSync of <nodeDir>/package, then either the load or handleSharp and
\* downloadFile up to the first GET (createWriteStream creates the file).
getNativeBinding(abiOK) ==
    /\ pc = "binding"
    /\ LET nodeName == platformArchMap(env, nameVersion(impl, cfgSharpV))
           pkg1 == IF fs.pkg = "absent" THEN "empty" ELSE fs.pkg
           url == archiveUrl(impl, cfgSharpV, nodeName)
       IN  IF unsupported(env, nameVersion(impl, cfgSharpV))
           THEN /\ pc' = "rejected"
                /\ hist' = Fail("platform")
                /\ trace' = trace \o <<"unsupported">>
                /\ UNCHANGED <<Sharp, marker, loaded, fs, dl>>
           ELSE IF localFileExisted(pkg1)
           THEN LET r == require(loaded, pkg1 = "node", abiOK)
                IN  /\ marker' = "pkg"
                    /\ loaded' = (loaded \/ r = "module")
                    /\ fs' = [fs EXCEPT !.pkg = pkg1]
                    /\ trace' = trace \o <<"resolve", "locate", "marker", "load">>
                    /\ IF r = "module"
                       THEN /\ Sharp' = "module"
                            /\ pc' = "resolved"
                            /\ hist' = [hist EXCEPT !.foundAtStart = TRUE]
                       ELSE /\ pc' = "rejected"
                            /\ hist' = [Fail("load") EXCEPT !.foundAtStart = TRUE]
                            /\ UNCHANGED Sharp
                    /\ UNCHANGED dl
           ELSE /\ fs' = [fs EXCEPT !.pkg = pkg1, !.tmp = TRUE, !.stage = TRUE,
                                    !.tar = [exists |-> TRUE, data |-> <<>>]]
                /\ dl' = [DlIdle EXCEPT !.state = "pending", !.phase = "request",
                                        !.requests = <<url>>]
                /\ trace' = trace \o <<"resolve", "locate", "GET">>
                /\ hist' = [hist EXCEPT !.downloads = @ + 1,
                                         !.acquired = nameVersion(impl, cfgSharpV)]
                /\ pc' = "downloading"
                /\ UNCHANGED <<Sharp, marker, loaded>>
    /\ UNCHANGED <<other, tree, out, impl, cfgSharpV, env, runs>>

\* ------------------------------------------------------- downloadFile
CurUrl == dl.requests[Len(dl.requests)]

\* The response callback, status 301 / 302 (lines 236-244).
dlRedirect(status, loc) ==
    /\ pc = "downloading" /\ dl.phase = "request"
    /\ status \in {301, 302}
    /\ Len(dl.locs) < MaxHops
    /\ IF loc = NoLoc
       THEN \* no Location header: reject
            /\ dl' = [dl EXCEPT !.state = "rejected", !.phase = "none",
                                !.cause = "noLocation", !.status = status]
            /\ pc' = "dlFailed"
            /\ trace' = trace \o <<"redirect">>
            /\ hist' = Fail("download")
       ELSE LET next == resolveLocation(loc, CurUrl)
            IN  IF protocolOf(next) # protocolOf(dl.requests[1])
                THEN \* protocol.get throws ERR_INVALID_PROTOCOL in the callback
                     /\ dl' = [dl EXCEPT !.phase = "none", !.cause = "protocol",
                                         !.status = status, !.locs = Append(@, loc)]
                     /\ pc' = "hung"
                     /\ trace' = trace \o <<"redirect", "getThrows">>
                     /\ hist' = Fail("download")
                ELSE /\ dl' = [dl EXCEPT !.status = status, !.locs = Append(@, loc),
                                         !.requests = Append(@, next)]
                     /\ trace' = trace \o <<"redirect", "GET">>
                     /\ UNCHANGED <<pc, hist>>
    /\ UNCHANGED <<other, tree, out, impl, cfgSharpV, env, runs, Sharp, marker, loaded, fs>>

\* The response callback, any other status than 200 (lines 246-249).
dlBadStatus(status) ==
    /\ pc = "downloading" /\ dl.phase = "request"
    /\ status \notin {200, 301, 302}
    /\ dl' = [dl EXCEPT !.state = "rejected", !.phase = "none",
                        !.cause = "status", !.status = status]
    /\ pc' = "dlFailed"
    /\ trace' = trace \o <<"badStatus">>
    /\ hist' = Fail("download")
    /\ UNCHANGED <<other, tree, out, impl, cfgSharpV, env, runs, Sharp, marker, loaded, fs>>

\* The response callback, status 200: response.pipe(file) (line 251).
dlOk ==
    /\ pc = "downloading" /\ dl.phase = "request"
    /\ dl' = [dl EXCEPT !.phase = "body", !.status = 200]
    /\ trace' = trace \o <<"ok200">>
    /\ UNCHANGED <<other, tree, out, impl, cfgSharpV, env, pc, runs, Sharp, marker, loaded, fs, hist>>

\* The 200 response carries one more chunk b, which the pipe writes to the
\* file.
dlChunk(b) ==
    /\ pc = "downloading" /\ dl.phase = "body"
    /\ Len(dl.body) < MaxBody
    /\ fs' = [fs EXCEPT !.tar.data = Append(@, b)]
    /\ dl' = [dl EXCEPT !.body = Append(@, b), !.sent = @ + 1]
    /\ UNCHANGED <<other, tree, out, impl, cfgSharpV, env, pc, runs, Sharp, marker, loaded, trace, hist>>

\* The request's 'error' listener (lines 260-263): fs.unlink is started
\* with an empty callback and reject is called at once.
dlRequestError ==
    /\ pc = "downloading" /\ dl.phase \in {"request", "body"}
    /\ dl' = [dl EXCEPT !.state = "rejected", !.phase = "none",
                        !.cause = "requestError", !.unlinkPending = TRUE]
    /\ pc' = "dlFailed"
    /\ trace' = trace \o <<"requestError">>
    /\ hist' = Fail("download")
    /\ UNCHANGED <<other, tree, out, impl, cfgSharpV, env, runs, Sharp, marker, loaded, fs>>

\* The write stream's 'error' listener (lines 256-259), attached with the
\* pipe: the same unlink-then-reject.
dlFileError ==
    /\ pc = "downloading" /\ dl.phase = "body"
    /\ dl' = [dl EXCEPT !.state = "rejected", !.phase = "none",
                        !.cause = "fileError", !.unlinkPending = TRUE]
    /\ pc' = "dlFailed"
    /\ trace' = trace \o <<"fileError">>
    /\ hist' = Fail("download")
    /\ UNCHANGED <<other, tree, out, impl, cfgSharpV, env, runs, Sharp, marker, loaded, fs>>

\* The connection closes in the middle of the body without a socket error:
\* the response emits 'aborted', the pipe never ends the file, no listener
\* of downloadFile runs.
dlAborted ==
    /\ pc = "downloading" /\ dl.phase = "body"
    /\ dl' = [dl EXCEPT !.phase = "none", !.cause = "aborted"]
    /\ pc' = "hung"
    /\ trace' = trace \o <<"aborted">>
    /\ hist' = Fail("download")
    /\ UNCHANGED <<other, tree, out, impl, cfgSharpV, env, runs, Sharp, marker, loaded, fs>>

\* The started fs.unlink(savePath) runs (in the thread pool, whenever).
unlinkDone ==
    /\ dl.unlinkPending
    /\ dl' = [dl EXCEPT !.unlinkPending = FALSE]
    /\ fs' = [fs EXCEPT !.tar = NoFile]
    /\ UNCHANGED <<other, tree, out, impl, cfgSharpV, env, pc, runs, Sharp, marker, loaded, trace, hist>>

\* The rejection reaches handleSharp's `await this.downloadFile(...)`:
\* handleSharp, getNativeBinding and start() reject in turn.  Of the call
\* only its error (cause, status) and a started unlink remain.
handleSharpDownloadFailed ==
    /\ pc = "dlFailed"
    /\ pc' = "rejected"
    /\ trace' = trace \o <<"downloadRejected">>
    /\ dl' = [dl EXCEPT !.requests = <<>>, !.locs = <<>>, !.body = <<>>, !.sent = 0]
    /\ UNCHANGED <<other, tree, out, impl, cfgSharpV, env, runs, Sharp, marker, loaded, fs, hist>>

\* The response ends, the pipe ends the file, and the file's 'finish'
\* listener (lines 252-255) resolves; handleSharp goes
\* on to extractAndClean, which opens the three piped streams.
dlFinish ==
    /\ pc = "downloading" /\ dl.phase = "body"
    /\ dl' = [dl EXCEPT !.state = "resolved", !.phase = "none"]
    /\ pc' = "extracting"
    /\ trace' = trace \o <<"downloaded", "extract">>
    /\ UNCHANGED <<other, tree, out, impl, cfgSharpV, env, runs, Sharp, marker, loaded, fs, hist>>

\* ----------------------------------------------------- extractAndClean
\* What the archive holds: a .node file at its root, under build/Release,
\* under another directory, or none.
Layouts == {"root", "release", "nested", "nonode"}

\* tar.extract({cwd: extractPath}) with every entry written.
unpack(pkg, layout) ==
    CASE layout = "root" -> "node"
      [] layout = "release" -> IF pkg = "node" THEN "node" ELSE "release"
      [] layout = "nested" -> IF pkg \in {"node", "release"} THEN pkg ELSE "nested"
      [] OTHER -> IF pkg \in {"absent", "empty"} THEN "junk" ELSE pkg

\* moveReleaseContents that leaves build/Release where it is.
moveReleaseContents_noMove(pkg) == pkg

\* moveReleaseContents(extractPath): every entry of build/Release is renamed
\* into extractPath and build/Release is removed.
moveReleaseContents(pkg) == IF pkg = "release" THEN "node" ELSE pkg

\* cleanup(file, dir): rmSync(file), then rmSync(dir, {recursive}) of the
\* staging directory; each is wrapped in its own try / catch that logs a
\* warning.
cleanup(f, rmFileFail, rmDirFail) ==
    LET f1 == IF rmFileFail THEN f ELSE [f EXCEPT !.tar = NoFile]
    IN  IF rmDirFail THEN f1 ELSE [f1 EXCEPT !.tar = NoFile, !.stage = FALSE]

\* What cleanup logs.
cleanupLog(rmFileFail, rmDirFail) ==
    <<"cleanup">> \o (IF rmFileFail THEN <<"rmFileWarn">> ELSE <<>>)
                 \o (IF rmDirFail THEN <<"rmDirWarn">> ELSE <<>>)

\* The read stream emits 'error' (the archive cannot be read): only the tar
\* stream has an 'error' listener, the promise is never settled.
exReadError ==
    /\ pc = "extracting"
    /\ pc' = "hung"
    /\ trace' = trace \o <<"readError">>
    /\ hist' = Fail("extract")
    /\ dl' = DlDone
    /\ UNCHANGED <<other, tree, out, impl, cfgSharpV, env, runs, Sharp, marker, loaded, fs>>

\* The gunzip stream emits 'error' (not gzip data, truncated): the same.
exGunzipError ==
    /\ pc = "extracting"
    /\ pc' = "hung"
    /\ trace' = trace \o <<"gunzipError">>
    /\ hist' = Fail("extract")
    /\ dl' = DlDone
    /\ UNCHANGED <<other, tree, out, impl, cfgSharpV, env, runs, Sharp, marker, loaded, fs>>

\* The tar stream emits 'error': reject; handleSharp logs and rethrows,
\* getNativeBinding and start() reject.  partial: entries written so far.
exTarError(partial) ==
    /\ pc = "extracting"
    /\ pc' = "rejected"
    /\ fs' = [fs EXCEPT !.pkg = unpack(@, partial)]
    /\ trace' = trace \o <<"tarError">>
    /\ hist' = Fail("extract")
    /\ dl' = DlDone
    /\ UNCHANGED <<other, tree, out, impl, cfgSharpV, env, runs, Sharp, marker, loaded>>

\* The tar stream's 'finish' listener (lines 111-116) and, once it resolved,
\* the rest of handleSharp and getNativeBinding: the marker and the load.
exFinish(layout, moveThrows, rmFileFail, rmDirFail, abiOK) ==
    /\ pc = "extracting"
    /\ LET got == unpack(fs.pkg, layout)
       IN  IF moveThrows /\ got = "release"
           THEN \* the async listener throws: nothing settles the promise
                /\ pc' = "hung"
                /\ fs' = [fs EXCEPT !.pkg = got]
                /\ trace' = trace \o <<"unpacked", "normalizeThrows">>
                /\ hist' = [Fail("normalize") EXCEPT !.layout = layout]
                /\ UNCHANGED <<Sharp, marker, loaded>>
           ELSE LET f2 == cleanup([fs EXCEPT !.pkg = moveReleaseContents(got)],
                                  rmFileFail, rmDirFail)
                    r == require(loaded, f2.pkg = "node", abiOK)
                    h == [(IF f2.pkg # "node" THEN Fail("noArtifact") ELSE hist)
                            EXCEPT !.layout = layout]
                IN  /\ fs' = f2
                    /\ marker' = "pkg"
                    /\ loaded' = (loaded \/ r = "module")
                    /\ trace' = trace \o <<"unpacked", "normalize">>
                                   \o cleanupLog(rmFileFail, rmDirFail)
                                   \o <<"extracted", "marker", "load">>
                    /\ IF r = "module"
                       THEN /\ Sharp' = "module"
                            /\ pc' = "resolved"
                            /\ hist' = h
                       ELSE /\ pc' = "rejected"
                            /\ hist' = [h EXCEPT !.failed = TRUE, !.failedStep = "load"]
                            /\ UNCHANGED Sharp
    /\ dl' = DlDone
    /\ UNCHANGED <<other, tree, out, impl, cfgSharpV, env, runs>>

\* ---------------------------------------------------------------- Next
Next ==
    \/ \E n \in BOOLEAN : start(n)
    \/ \E n \in BOOLEAN : startMkdirFails(n)
    \/ \E ok \in BOOLEAN : startLocate(ok)
    \/ \E io \in BOOLEAN, latest \in Versions : fullDownloadSharp(io, latest)
    \/ \E code \in ExitCodes : installClose(code)
    \/ installSpawnError
    \/ \E code \in ExitCodes, produced \in {"absent", "junk", "node"},
          ioFail \in BOOLEAN, rmFail \in BOOLEAN, ok \in BOOLEAN :
            buildClose(code, produced, ioFail, rmFail, ok)
    \/ buildSpawnError
    \/ \E ok \in BOOLEAN : getNativeBinding(ok)
    \/ \E st \in Statuses, loc \in Locs \cup {NoLoc} : dlRedirect(st, loc)
    \/ \E st \in Statuses : dlBadStatus(st)
    \/ dlOk
    \/ \E b \in Bytes : dlChunk(b)
    \/ dlRequestError
    \/ dlFileError
    \/ dlAborted
    \/ unlinkDone
    \/ handleSharpDownloadFailed
    \/ dlFinish
    \/ exReadError
    \/ exGunzipError
    \/ \E partial \in Layouts : exTarError(partial)
    \/ \E layout \in Layouts, mv \in BOOLEAN, rmFile \in BOOLEAN,
          rmDir \in BOOLEAN, ok \in BOOLEAN :
            exFinish(layout, mv, rmFile, rmDir, ok)

Spec == Init /\ [][Next]_vars

\* ----------------------------------- two flows on the same directories
\* Two processes load the plugin (index.ts) under the same baseDir with the
\* same configuration: their start() flows share nodeBinaryPath and tmpDir
\* (both are fixed paths under baseDir, lines 46-62) and nothing else.
\* Each step belongs to the flow whose state is in pc, runs, Sharp, marker,
\* loaded, trace and hist; the other flow's state waits in `other`.
InitTwo ==
    /\ tree = NoTree
    /\ out = NoOut
    /\ impl = "index"
    /\ cfgSharpV = sharpVersion
    /\ env = EnvOf("linux", "x64", TRUE, TRUE, TRUE, FALSE)
    /\ pc = "init"
    /\ runs = 0
    /\ Sharp = "absent"
    /\ marker = "unset"
    /\ loaded = FALSE
    /\ \E i \in ImgStates :
         fs = [img |-> i, pkg |-> "absent", tmp |-> FALSE, stage |-> FALSE,
               descriptor |-> FALSE, tar |-> NoFile, srcImg |-> "absent"]
    /\ dl = DlIdle
    /\ trace = <<>>
    /\ hist = [downloads |-> 0, failed |-> FALSE, failedStep |-> "none",
               startEmpty |-> (fs.img # "node"),
               foundAtStart |-> FALSE, layout |-> "none",
               blocked |-> FALSE, err |-> <<>>, acquired |-> "none"]
    /\ other = [pc |-> "init", runs |-> 0, Sharp |-> "absent", marker |-> "unset",
                loaded |-> FALSE, trace |-> <<>>, hist |-> hist]

\* Between two callbacks of one flow, a callback of the other flow may run:
\* every await of start() (lines 66-81) is such a point.
switchFlow ==
    /\ pc # "init"
    /\ other.pc # "none"
    /\ other' = [pc |-> pc, runs |-> runs, Sharp |-> Sharp, marker |-> marker,
                 loaded |-> loaded, trace |-> trace, hist |-> hist]
    /\ pc' = other.pc
    /\ runs' = other.runs
    /\ Sharp' = other.Sharp
    /\ marker' = other.marker
    /\ loaded' = other.loaded
    /\ trace' = other.trace
    /\ hist' = other.hist
    /\ UNCHANGED <<tree, out, impl, cfgSharpV, env, fs, dl>>

NextTwo ==
    \/ \E n \in BOOLEAN : start(n)
    \/ \E n \in BOOLEAN : startMkdirFails(n)
    \/ \E ok \in BOOLEAN : startLocate(ok)
    \/ \E io \in BOOLEAN, latest \in Versions : fullDownloadSharp(io, latest)
    \/ \E code \in ExitCodes : installClose(code)
    \/ installSpawnError
    \/ \E code \in ExitCodes, produced \in {"absent", "junk", "node"},
          ioFail \in BOOLEAN, rmFail \in BOOLEAN, ok \in BOOLEAN :
            buildClose(code, produced, ioFail, rmFail, ok)
    \/ buildSpawnError
    \/ switchFlow

SpecTwo == InitTwo /\ [][NextTwo]_vars

\* ------------------------------------------- the resolver, called alone
\* Every process the resolver may run in: platform, arch and the libc
\* evidence (a glibc version is recorded only in a report; ldd contains the
\* marker only if it can be read).
Platforms == {"win32", "darwin", "linux", "freebsd"}
Archs == {"x64", "ia32", "arm64", "arm", "s390x", "ppc64"}
AllEnvs ==
    { EnvOf(p, a, rep, glibc, lddOk, lddMusl) :
        p \in Platforms, a \in Archs,
        rep \in BOOLEAN, glibc \in BOOLEAN, lddOk \in BOOLEAN, lddMusl \in BOOLEAN }

InitResolve ==
    /\ other = NoFlow
    /\ tree = NoTree
    /\ out = NoOut
    /\ impl \in Impls
    /\ cfgSharpV \in Versions
    /\ env \in { e \in AllEnvs : (e.glibc => e.hasReport) /\ (e.lddMusl => e.lddOk) }
    /\ pc = "init"
    /\ runs = 0
    /\ Sharp = "absent"
    /\ marker = "unset"
    /\ loaded = FALSE
    /\ fs = [img |-> "absent", pkg |-> "absent", tmp |-> FALSE, stage |-> FALSE, descriptor |-> FALSE,
             tar |-> NoFile, srcImg |-> "absent"]
    /\ dl = DlIdle
    /\ trace = <<>>
    /\ hist = [downloads |-> 0, failed |-> FALSE, failedStep |-> "none",
               startEmpty |-> TRUE, foundAtStart |-> FALSE, layout |-> "none",
               blocked |-> FALSE, err |-> <<>>, acquired |-> "none"]

\* this.isMusl() called on its own.
callIsMusl ==
    /\ out.op = "none"
    /\ out' = [op |-> "isMusl", ret |-> isMusl(env)]
    /\ UNCHANGED <<other, tree, impl, cfgSharpV, env, pc, runs, Sharp, marker, loaded, fs,
                   dl, trace, hist>>

\* The first part of getNativeBinding (the table and its lookup) on its own.
callPlatformArchMap ==
    /\ out.op = "none"
    /\ out' = [op |-> "platformArchMap",
               ret |-> platformArchMap(env, nameVersion(impl, cfgSharpV))]
    /\ UNCHANGED <<other, tree, impl, cfgSharpV, env, pc, runs, Sharp, marker, loaded, fs,
                   dl, trace, hist>>

NextResolve == callIsMusl \/ callPlatformArchMap

SpecResolve == InitResolve /\ [][NextResolve]_vars

\* -------------------------------------------- the locator, called alone
\* File names are sequences of characters; Suffix is '.node'.
Suffix == <<".", "n", "o", "d", "e">>
Names == { <<"a">>, <<"n", "o", "d", "e">>, <<"x", ".", "n", "o", "d", "e">> }

\* file.endsWith('.node')
endsWith(name, suffix) ==
    /\ Len(name) >= Len(suffix)
    /\ SubSeq(name, Len(name) - Len(suffix) + 1, Len(name)) = suffix

\* The paths below the root, up to three levels deep.
Paths ==
    { <<n>> : n \in Names } \cup { <<n, m>> : n \in Names, m \in Names }
      \cup { <<n, m, k>> : n \in Names, m \in Names, k \in Names }

\* An entry is a regular file, a directory, or "broken": statSync or
\* readdirSync throws on it (a dangling link, a directory without
\* permission).
Kinds == {"file", "dir", "broken"}

\* The orders in which readdirSync may list the names of a directory.
Orders ==
    { o \in [1..Cardinality(Names) -> Names] :
        \A i, j \in DOMAIN o : i # j => o[i] # o[j] }

kindOf(t, dir) == IF dir = <<>> THEN t.root ELSE t.entries[dir]

RECURSIVE findNodeFileDirIn(_, _, _)
RECURSIVE scanEntries(_, _, _, _)

\* The `for (const file of files)` loop of findNodeFileDir from the i-th
\* listed name on: a directory is searched first and its result returned
\* when defined, a file whose name ends in the suffix makes dir the result.
scanEntries(t, dir, ord, i) ==
    IF i > Len(ord) THEN [st |-> "undefined", dir |-> <<>>]
    ELSE LET p == Append(dir, ord[i])
         IN  IF p \notin DOMAIN t.entries THEN scanEntries(t, dir, ord, i + 1)
             ELSE IF t.entries[p] # "file"
                  THEN LET r == findNodeFileDirIn(t, p, ord)
                       IN  IF r.st = "undefined"
                           THEN scanEntries(t, dir, ord, i + 1) ELSE r
                  ELSE IF endsWith(ord[i], Suffix)
                       THEN [st |-> "found", dir |-> dir]
                       ELSE scanEntries(t, dir, ord, i + 1)

\* findNodeFileDir(dir) on a concrete tree: readdirSync(dir) throws unless
\* dir is a readable directory.
findNodeFileDirIn(t, dir, ord) ==
    IF kindOf(t, dir) # "dir" THEN [st |-> "throws", dir |-> <<>>]
    ELSE scanEntries(t, dir, ord, 1)

InitLocate ==
    /\ other = NoFlow
    /\ tree \in { [root |-> k, entries |-> <<>>] : k \in {"missing", "dir", "broken"} }
    /\ out = NoOut
    /\ impl = "index"
    /\ cfgSharpV = sharpVersion
    /\ env = EnvOf("linux", "x64", TRUE, TRUE, TRUE, FALSE)
    /\ pc = "init"
    /\ runs = 0
    /\ Sharp = "absent"
    /\ marker = "unset"
    /\ loaded = FALSE
    /\ fs = [img |-> "absent", pkg |-> "absent", tmp |-> FALSE, stage |-> FALSE, descriptor |-> FALSE,
             tar |-> NoFile, srcImg |-> "absent"]
    /\ dl = DlIdle
    /\ trace = <<>>
    /\ hist = [downloads |-> 0, failed |-> FALSE, failedStep |-> "none",
               startEmpty |-> TRUE, foundAtStart |-> FALSE, layout |-> "none",
               blocked |-> FALSE, err |-> <<>>, acquired |-> "none"]

\* One more entry of kind k at path p is put into the tree under @img.
plant(p, k) ==
    /\ out.op = "none"
    /\ tree.root = "dir"
    /\ Cardinality(DOMAIN tree.entries) < MaxEntries
    /\ p \notin DOMAIN tree.entries
    /\ Len(p) > 1 =>
          LET parent == SubSeq(p, 1, Len(p) - 1)
          IN  parent \in DOMAIN tree.entries /\ tree.entries[parent] = "dir"
    /\ tree' = [tree EXCEPT !.entries = @ @@ (p :> k)]
    /\ UNCHANGED <<other, out, impl, cfgSharpV, env, pc, runs, Sharp, marker, loaded, fs,
                   dl, trace, hist>>

\* tryLoadSharp() on the tree: false when the walk threw or found nothing;
\* otherwise the marker is set to the directory found and the module is
\* required.
callTryLoadSharp(ord, abiOK) ==
    /\ out.op = "none"
    /\ LET w == findNodeFileDirIn(tree, <<>>, ord)
       IN  IF w.st # "found"
           THEN /\ out' = [op |-> "tryLoadSharp", found |-> FALSE, dir |-> <<>>,
                           ret |-> "false"]
                /\ UNCHANGED <<marker, loaded>>
           ELSE LET r == require(loaded, TRUE, abiOK)
                IN  /\ out' = [op |-> "tryLoadSharp", found |-> TRUE, dir |-> w.dir,
                                ret |-> r]
                    /\ marker' = "img"
                    /\ loaded' = (loaded \/ r = "module")
    /\ UNCHANGED <<other, tree, impl, cfgSharpV, env, pc, runs, Sharp, fs, dl, trace, hist>>

NextLocate ==
    \/ \E p \in Paths, k \in Kinds : plant(p, k)
    \/ \E ord \in Orders, ok \in BOOLEAN : callTryLoadSharp(ord, ok)

SpecLocate == InitLocate /\ [][NextLocate]_vars

\* ============================================================== claims
Has(ev) == \E i \in DOMAIN trace : trace[i] = ev
\* Every ev in the trace has an a before it.
Before(a, ev) ==
    \A j \in DOMAIN trace : trace[j] = ev => \E i \in 1..(j - 1) : trace[i] = a

\* C1: when start() has resolved, this.Sharp is the loaded module; in every
\* other state (before Ready, and after a run that found or loaded no
\* module) this.Sharp is absent, never another value such as false.
C1_SharpOnlyWhenReady ==
    /\ (pc = "resolved" => Sharp = "module")
    /\ (pc # "resolved" => Sharp = "absent")

\* C2: once a pipeline step of the run has failed (download, extraction,
\* package install, build, relocation, load) and the flow has stopped,
\* start() has rejected: it has neither resolved nor hung.
C2_FailureRejects ==
    (pc \in Stopped /\ hist.failedStep \in
        {"download", "extract", "install", "build", "relocate", "load"})
    => pc = "rejected"

\* C3: starting from a directory without a native module, when no step of
\* any run so far failed and the acquired artifact held a module, the first
\* run has performed exactly one network acquisition and later runs none.
C3_OneDownloadInTotal ==
    (hist.startEmpty /\ ~hist.failed /\ (runs >= 2 \/ (runs = 1 /\ pc = "resolved")))
    => hist.downloads = 1

C3_Witness ==
    /\ hist.startEmpty /\ ~hist.failed
    /\ runs = 2 /\ pc = "resolved" /\ Sharp = "module"
    /\ hist.downloads = 1

\* C4: a run whose locator finds a native module (index.ts: under @img;
\* part_001: directly in the package directory) does nothing but set the
\* marker to that directory and load: the flow settles in that very step
\* and no GET, extraction, package install or build is started.
LocatorFinds ==
    \/ impl = "index" /\ pc = "locating" /\ fs.img = "node"
    \/ /\ impl = "part_001" /\ pc = "binding" /\ fs.pkg = "node"
       /\ platformArchMap(env, sharpVersion) # "unsupported"
C4_FoundGoesStraightToLoading ==
    [][ LocatorFinds =>
          /\ pc' \in Settled
          /\ marker' = (IF impl = "index" THEN "img" ELSE "pkg")
          /\ hist'.downloads = hist.downloads
          /\ \A ev \in {"GET", "extract", "npmInstall", "npmBuild"} : ~Has(ev)'
          /\ SubSeq(trace', Len(trace') - 2, Len(trace')) = <<"locate", "marker", "load">>
      ]_vars

C4_Witness ==
    /\ hist.foundAtStart /\ pc = "resolved" /\ Sharp = "module"
    /\ trace = <<"ensureDir", "locate", "marker", "load">>

\* C5 (as stated): whenever a locate finds nothing, the next step is the
\* Downloader's GET, right after the artifact name was resolved; extraction
\* follows the download, and once it completed the package directory holds
\* the module and the load follows.
NotFoundAt(i) == trace[i] = "locate" /\ i < Len(trace) /\ trace[i + 1] # "marker"
PlatformKey(e) ==
    e.platform
      \o (IF e.platform = "linux" /\ e.arch \in {"x64", "arm64"} /\ isMusl(e)
          THEN "musl" ELSE "")
      \o "-" \o e.arch
C6_UrlCarriesConfiguredVersion ==
    Len(dl.requests) >= 1 =>
        UrlString(dl.requests[1]) =
            "https://" \o registryHost \o "/-/binary/sharp/v" \o cfgSharpV
              \o "/sharp-v" \o cfgSharpV \o "-napi-v9-" \o PlatformKey(env) \o ".tar.gz"

\* C7: when downloadFile rejected because the terminal status was not 200,
\* the error carries that status and no file exists at the destination.
C7_BadStatusLeavesNoFile ==
    (dl.state = "rejected" /\ dl.cause = "status")
    => (dl.status \notin {200, 301, 302} /\ ~fs.tar.exists)

\* C8: when the rejection caused by a request error or a write-stream error
\* has reached the caller, no file exists at the destination.
C8_IoErrorFileGoneAtReject ==
    (pc = "rejected" /\ dl.cause \in {"requestError", "fileError"})
    => ~fs.tar.exists

\* C9: along a chain of redirects that each carry a Location (and with no
\* network or file error), one GET is issued per hop, against the Location
\* resolved against the previous URL; nothing is written before the 200
\* response, and when downloadFile resolves the file holds exactly its body.
C9_RedirectChainFollowed ==
    (dl.requests # <<>> /\
     dl.cause \notin {"noLocation", "status", "requestError", "fileError", "aborted"})
    => /\ Len(dl.requests) = Len(dl.locs) + 1
       /\ \A i \in DOMAIN dl.locs :
            dl.requests[i + 1] =
                (IF dl.locs[i].abs
                 THEN Url(dl.locs[i].proto, dl.locs[i].host, dl.locs[i].path)
                 ELSE Url(dl.requests[i].proto, dl.requests[i].host, dl.locs[i].path))
       /\ (dl.phase = "request" => fs.tar.data = <<>>)
       /\ (pc = "extracting" => (dl.state = "resolved" /\ fs.tar.data = dl.body))

\* C10: when reading the archive, the gzip layer or the tar decoder failed,
\* extractAndClean has rejected (so start() has), and neither the
\* normalization nor the cleanup has run.
C10_ExtractFailureRejects ==
    (Has("readError") \/ Has("gunzipError") \/ Has("tarError"))
    => (pc = "rejected" /\ ~Has("normalize") /\ ~Has("cleanup"))

\* C11 (as stated): after extractAndClean resolved for an archive whose
\* entries lie under build/Release, the entries are directly under the
\* target directory, build/Release is gone, and neither the archive file nor
\* its staging directory exists.
C11_ReleaseFlattenedAndCleaned ==
    (Has("extracted") /\ hist.layout = "release")
    => (fs.pkg = "node" /\ ~fs.tar.exists /\ ~fs.stage)

\* C11 (amended): the entries are directly under the target directory and
\* build/Release is gone; the archive file no longer exists unless both of
\* cleanup's deletions failed, and the staging directory no longer exists
\* unless its deletion failed (cleanup only logs a warning then).
C11_ReleaseFlattened ==
    (Has("extracted") /\ hist.layout = "release")
    => /\ fs.pkg = "node"
       /\ (~Has("rmDirWarn") => (~fs.tar.exists /\ ~fs.stage))
       /\ (~Has("rmFileWarn") => ~fs.tar.exists)
       /\ (Has("rmDirWarn") => fs.stage)
       /\ ((Has("rmDirWarn") /\ Has("rmFileWarn")) => fs.tar.exists)

C11_Witness ==
    /\ Has("extracted") /\ hist.layout = "release" /\ fs.pkg = "node"
    /\ ~Has("rmDirWarn") /\ ~Has("rmFileWarn") /\ ~fs.tar.exists /\ ~fs.stage

\* C12: a failed deletion of a temporary file or directory never stops the
\* run: no run fails at cleanup or at cleanTMP, and a run whose cleanup
\* warned goes on to the marker and the load.
C12_DeletionFailureNotRethrown ==
    /\ hist.failedStep \notin {"cleanup", "cleanTMP"}
    /\ ~Has("cleanTMPFailed")
    /\ ((Has("rmFileWarn") \/ Has("rmDirWarn")) => Has("extracted"))

\* C13: for the eight supported (os, arch) pairs the resolver yields
\* sharp-v<version>-napi-v9-<os>[musl]-<arch>, with the musl infix exactly
\* when os is linux, arch is x64 or arm64 and the libc is musl; for every
\* other pair it fails with the unsupported-platform error.
SupportedPairs ==
    { <<"win32", "x64">>, <<"win32", "ia32">>, <<"darwin", "x64">>,
      <<"darwin", "arm64">>, <<"linux", "x64">>, <<"linux", "arm64">>,
      <<"linux", "arm">>, <<"linux", "s390x">> }
C14_ThreeTiers ==
    out.op = "isMusl" =>
        out.ret = (IF env.glibc THEN FALSE
                   ELSE IF env.lddOk THEN env.lddMusl ELSE TRUE)

\* C14 (amended): with a diagnostic report the answer is glibc exactly when
\* the report records a glibc runtime version, and musl otherwise, without
\* looking at the linker; only without a report the linker decides (musl
\* exactly when it contains the marker), and musl when it cannot be read.
C14_ReportThenLinker ==
    out.op = "isMusl" =>
        /\ (env.glibc => out.ret = FALSE)
        /\ ((env.hasReport /\ ~env.glibc) => out.ret = TRUE)
        /\ ((~env.hasReport /\ env.lddOk) => out.ret = env.lddMusl)
        /\ ((~env.hasReport /\ ~env.lddOk) => out.ret = TRUE)

C14_Witness ==
    /\ out.op = "isMusl" /\ env.hasReport /\ ~env.glibc
    /\ env.lddOk /\ ~env.lddMusl /\ out.ret = TRUE

\* C15: the locator answers not-found when the root is missing, cannot be
\* read, or holds no regular file whose name ends in the suffix at any
\* depth; otherwise it answers a directory that directly holds such a file
\* (a directory whose own name ends in the suffix does not count).
ModuleFiles ==
    { p \in DOMAIN tree.entries :
        tree.entries[p] = "file" /\ endsWith(p[Len(p)], Suffix) }
C15_LocatorFindsExactDirectory ==
    out.op = "tryLoadSharp" =>
        IF tree.root # "dir" \/ ModuleFiles = {}
        THEN ~out.found
        ELSE /\ out.found
             /\ \E p \in ModuleFiles : SubSeq(p, 1, Len(p) - 1) = out.dir

\* C16 (as stated): a locate call changes neither the filesystem nor the
\* marker nor the loaded modules and issues no request, whatever it returns.
C16_LocateMutatesNothing ==
    [][ pc = "locating" =>
          /\ fs' = fs /\ dl' = dl /\ hist'.downloads = hist.downloads
          /\ marker' = marker /\ loaded' = loaded
      ]_vars

\* C16 (amended): a locate call (tryLoadSharp) never changes the filesystem
\* and issues no request; when it finds nothing it leaves the marker and the
\* loaded modules as they were; when it finds a module it sets the marker to
\* the directory found and loads the module from there.
C16_LocateMutatesOnlyWhenFound ==
    [][ pc = "locating" =>
          /\ fs' = fs /\ dl' = dl /\ hist'.downloads = hist.downloads
          /\ (fs.img # "node" => (marker' = marker /\ loaded' = loaded /\ pc' = "install"))
          /\ (fs.img = "node" =>
                (marker' = "img" /\ (pc' = "resolved" => loaded')))
      ]_vars

C16_Witness ==
    /\ impl = "index" /\ pc = "install" /\ fs.img = "junk"
    /\ trace = <<"ensureDir", "locate">> /\ marker = "unset" /\ ~loaded

\* C17: a run that follows a failed or interrupted run, and in which no
\* external step fails (the only failure it may meet is the rename of @img
\* onto what the earlier run left behind), ends with start() resolved and
\* the module loaded.
ThisRunExternalOk ==
    \/ hist.failedStep = "none"
    \/ hist.failedStep = "relocate" /\ hist.blocked
C17_RerunEndsReady ==
    (runs >= 2 /\ hist.failed /\ pc \in Stopped /\ ThisRunExternalOk)
    => (pc = "resolved" /\ Sharp = "module" /\ loaded)

\* C18: when the build exited with 0 and the @img directory is absent, the
\* run (whose cleanTMP did not fail) stops rejected at the load step, not
\* resolved.
C18_MissingArtifactFailsAtLoad ==
    (Has("noImgDir") /\ ~Has("cleanTMPFailed") /\ pc \in Stopped)
    => (pc = "rejected" /\ hist.failedStep = "load")

\* C19: in the fallback build the project descriptor is written (when there
\* is none) right before the package install is spawned; the build is
\* spawned only after the install exited with 0 and the relocation happens
\* only after the build exited with 0; a non-zero exit code of either makes
\* the run reject with an error carrying that code, with no later step and
\* no relocation.
C19_BuildOrderAndExitCodes ==
    /\ \A j \in DOMAIN trace :
         /\ trace[j] = "descriptor" => (j < Len(trace) /\ trace[j + 1] = "npmInstall")
         /\ trace[j] = "npmInstall" => fs.descriptor \/ Has("cleanTMP")
    /\ Before("npmInstall", "installOk") /\ Before("installOk", "npmBuild")
    /\ Before("npmBuild", "buildOk")
    /\ \A ev \in {"relocate", "relocateFailed", "noImgDir"} : Before("buildOk", ev)
    /\ Has("installExit") =>
         /\ pc = "rejected" /\ Len(hist.err) = 1 /\ hist.err[1] # 0
         /\ trace[Len(trace)] = "installExit"
         /\ ~Has("npmBuild") /\ ~Has("relocate")
    /\ Has("buildExit") =>
         /\ pc = "rejected" /\ Len(hist.err) = 1 /\ hist.err[1] # 0
         /\ trace[Len(trace)] = "buildExit"
         /\ ~Has("relocate") /\ ~Has("relocateFailed") /\ ~Has("noImgDir")

C19_Witness ==
    /\ Has("descriptor") /\ Has("buildExit") /\ pc = "rejected" /\ hist.err = <<2>>

\* C20 (as stated): on an unsupported (os, arch) pair the run (whose
\* directories could be created) ends rejected with the unsupported-platform
\* error and starts neither a download nor a package install or build.
UnsupportedEnv == <<env.platform, env.arch>> \notin SupportedPairs
C20_UnsupportedNoFallback ==
    (UnsupportedEnv /\ Has("ensureDir")) =>
        /\ ~Has("GET") /\ ~Has("npmInstall") /\ ~Has("npmBuild")
        /\ pc \in Stopped => (pc = "rejected" /\ hist.failedStep = "platform")

\* C20 (amended): that holds of the getNativeBinding flow (part_001);
\* start() of index.ts never consults the platform table, it rejects no run
\* for its platform and goes from a locate that found nothing to the package
\* install on every platform.
C20_UnsupportedRejectsInGetNativeBinding ==
    (UnsupportedEnv /\ Has("ensureDir")) =>
        /\ impl = "part_001" =>
             /\ ~Has("GET") /\ ~Has("npmInstall") /\ ~Has("npmBuild")
             /\ hist.downloads = 0 /\ ~fs.tar.exists
             /\ pc \in Stopped => (pc = "rejected" /\ hist.failedStep = "platform")
        /\ impl = "index" =>
             /\ ~Has("unsupported") /\ hist.failedStep # "platform"
             /\ pc = "install" => ENABLED fullDownloadSharp(FALSE, sharpVersion)

C20_Witness ==
    /\ UnsupportedEnv /\ impl = "part_001" /\ runs = 2
    /\ pc = "rejected" /\ trace = <<"ensureDir", "unsupported">>

\* C21: when start() has settled after a run that used a temp workspace (the
\* package install under tmpDir, or the archive's staging directory) and no
\* deletion failed, nothing of that workspace exists any more: neither the
\* project descriptor or the built @img under tmpDir, nor the staging
\* directory or the archive.
C21_WorkspaceGoneWhenSettled ==
    (/\ pc \in Settled
     /\ Has("npmInstall") \/ Has("GET")
     /\ ~Has("cleanTMPFailed") /\ ~Has("rmFileWarn") /\ ~Has("rmDirWarn"))
    => /\ ~fs.descriptor /\ fs.srcImg = "absent"
       /\ ~fs.stage /\ ~fs.tar.exists

\* C24: every network failure of a download makes the promise downloadFile
\* returned reject, and once the flow has stopped the promise of a download
\* that was started is settled.
C24_DownloadAlwaysSettles ==
    /\ dl.cause \in {"noLocation", "status", "requestError", "protocol", "aborted"}
         => dl.state = "rejected"
    /\ (pc \in Stopped /\ Has("GET")) => dl.state \in Settled

\* C25: when the normalization threw inside the 'finish' listener of the tar
\* stream, extractAndClean has rejected (so start() has): it does not stay
\* pending.
C25_NormalizeFailureRejects ==
    Has("normalizeThrows") => pc = "rejected"

\* C26: whichever way a run acquires the artifact (the package install of
\* the source build, the archive of the prebuilt path), the version it asks
\* the network for is the configured one.
C26_AcquiresConfiguredVersion ==
    hist.acquired # "none" => hist.acquired = cfgSharpV

\* C23: while one installation flow is between the creation of its temporary
\* workspace and its own cleanup of it (its install or its build subprocess
\* is running), no step of another flow creates, changes or deletes that
\* workspace: the workspace directory, the descriptor and the artifact
\* directory the build leaves in it.
Workspace == <<fs.tmp, fs.descriptor, fs.srcImg>>
C23_WorkspaceOwnedExclusively ==
    [][(other' = other /\ other.pc \in {"installing", "building"})
         => Workspace' = Workspace]_vars

\* C22: every load of the native module comes directly after a write of the
\* process-wide marker, the marker is written nowhere else, and the
\* directory written directly contains a native module file at that moment.
C22_MarkerNamesModuleDirectory ==
    /\ \A i \in 1..Len(trace) :
         /\ trace[i] = "load" => (i > 1 /\ trace[i - 1] = "marker")
         /\ trace[i] = "marker" => (i < Len(trace) /\ trace[i + 1] = "load")
    /\ Has("marker") => \/ marker = "img" /\ fs.img = "node"
                        \/ marker = "pkg" /\ fs.pkg = "node"

====
